---- MODULE Spec2Model ----
(***************************************************************************)
(* Multi-sensor API server (ultrasonic_server.py): three sensor objects,   *)
(* each guarded by its own lock, updated by a background poller thread and *)
(* by the request handlers that run on the server's event loop.            *)
(*                                                                         *)
(* Numbers are fixed-point: every measurement is an integer number of      *)
(* thousandths (10.0 cm is 10000), so that round(x, 2) is a real rounding. *)
(* Time is an integer number of clock ticks, TicksPerSecond to the second. *)
(***************************************************************************)
EXTENDS Integers, Sequences, FiniteSets, TLC

VARIABLES
    distance,           \* UltrasonicSensor.distance
    air_quality_ppm,    \* MQ135Sensor.air_quality_ppm
    temperature,        \* DHT11Sensor.temperature
    humidity,           \* DHT11Sensor.humidity
    last_reading_time,  \* BaseSensor.last_reading_time, per sensor
    lock,               \* BaseSensor.lock, per sensor: its holder, or Free
    alerts,             \* BaseSensor.alerts, per sensor
    now,                \* the system clock, in ticks
    pc,                 \* per thread: the statement it is at
    op,                 \* per thread: the function it is running
    sensor,             \* per thread: the registry key it is working on
    measured,           \* per thread: the reader's result inside update_reading
    base,               \* per thread: length of the alert log when it took the lock
    reading,            \* the dict get_reading is building (event loop)
    data,               \* readings / all_alerts / health_status being collected
    response,           \* the last response of the event loop, None while handling
    committed,          \* per sensor: measurement and time of the last finished commit
    responsive          \* the sensors whose hardware answers; the others' readers fail

vars == <<distance, air_quality_ppm, temperature, humidity, last_reading_time,
          lock, alerts, now, pc, op, sensor, measured, base, reading, data,
          response, committed, responsive>>

sensorVars == <<distance, air_quality_ppm, temperature, humidity,
                last_reading_time, alerts>>

-----------------------------------------------------------------------------
(* Bounds of the model *)

\* the clock stops ticking at MaxClock
MaxClock == 2
\* ticks per whole second (time.time() truncates to the second)
TicksPerSecond == 2
\* readers stop returning values that raise alerts once a log has grown by this many
MaxAlerts == 2

-----------------------------------------------------------------------------
(* Optional values *)

None == <<>>
Some(x) == <<x>>
Val(o) == o[1]

Free == "free"
Poller == "poller"
Server == "server"
Threads == {Poller, Server}

-----------------------------------------------------------------------------
(* The registry *)

\* sensors = {'ultrasonic': ..., 'mq135': ..., 'dht11': ...}, in insertion order
SensorOrder == <<"ultrasonic", "mq135", "dht11">>
sensors == {SensorOrder[i] : i \in 1..Len(SensorOrder)}

sensor_id(s) ==
    CASE s = "ultrasonic" -> "ULTRASONIC-01"
      [] s = "mq135" -> "MQ135-01"
      [] s = "dht11" -> "DHT11-01"

asset_id(s) ==
    CASE s = "ultrasonic" -> "DIST-SENSOR-01"
      [] s = "mq135" -> "AIR-QUALITY-01"
      [] s = "dht11" -> "TEMP-HUM-01"

-----------------------------------------------------------------------------
(* Thresholds, in thousandths *)

min_distance_threshold == 10000
max_distance_threshold == 200000
danger_threshold == 1000000
warning_threshold == 500000
temp_high_threshold == 35000
temp_low_threshold == 5000
humidity_high_threshold == 80000
humidity_low_threshold == 20000
\* sensor.alerts[-10:]
KeepLast == 10

-----------------------------------------------------------------------------
(* Arithmetic *)

\* n/d rounded to the nearest integer, ties to the even one (Python's round)
RoundHalfEven(n, d) ==
    LET q == n \div d
        r == n % d
    IN  IF 2 * r < d THEN q
        ELSE IF 2 * r > d THEN q + 1
        ELSE IF q % 2 = 0 THEN q ELSE q + 1

\* round(n/d, 2) for a value n/d in thousandths: the result is a multiple of 10
Round2Frac(n, d) == 10 * RoundHalfEven(n, 10 * d)

\* round(x, 2)
Round2(x) == Round2Frac(x, 1)

\* round(self.distance / 2.54, 2)
Inches(cm) == Round2Frac(cm * 100, 254)

\* round((self.temperature * 9/5) + 32, 2)
Fahrenheit(c) == Round2Frac(c * 9 + 160000, 5)

\* quality_level of MQ135Sensor.get_reading
QualityLevel(ppm) ==
    IF ppm > danger_threshold THEN "Dangerous"
    ELSE IF ppm > warning_threshold THEN "Poor"
    ELSE "Good"

-----------------------------------------------------------------------------
(* Clock values and their ISO-8601 text *)

\* int(time.time())
UnixSeconds(t) == t \div TicksPerSecond

\* A two-digit field, as character codes
TwoDigits(n) == <<48 + ((n \div 10) % 10), 48 + (n % 10)>>

\* IsoFormat with "Z" (character code 90) for the UTC offset
IsoFormatZ(t) ==
    LET frac == t % TicksPerSecond
    IN  TwoDigits(UnixSeconds(t))
          \o (IF frac = 0 THEN <<>> ELSE <<46, 48 + ((10 * frac) \div TicksPerSecond)>>)
          \o <<90>>

\* datetime.isoformat(): the seconds, the fraction unless it is zero, the
\* UTC offset.  Character codes: "+" is 43, "." is 46, digits are 48..57.
IsoFormat(t) ==
    LET frac == t % TicksPerSecond
    IN  TwoDigits(UnixSeconds(t))
          \o (IF frac = 0 THEN <<>> ELSE <<46, 48 + ((10 * frac) \div TicksPerSecond)>>)
          \o <<43>>

\* Python's str comparison a < b
RECURSIVE StrLess(_, _)
StrLess(a, b) ==
    IF b = <<>> THEN FALSE
    ELSE IF a = <<>> THEN TRUE
    ELSE IF Head(a) # Head(b) THEN Head(a) < Head(b)
    ELSE StrLess(Tail(a), Tail(b))

\* list.sort(key=lambda x: x['Date'], reverse=True): a stable sort, so an
\* element goes behind every element whose Date is not smaller than its own
RECURSIVE InsertByDateDesc(_, _)
InsertByDateDesc(sorted, x) ==
    IF sorted = <<>> THEN <<x>>
    ELSE IF StrLess(Head(sorted).Date, x.Date) THEN <<x>> \o sorted
    ELSE <<Head(sorted)>> \o InsertByDateDesc(Tail(sorted), x)

RECURSIVE SortByDateDesc(_)
SortByDateDesc(seq) ==
    IF seq = <<>> THEN <<>>
    ELSE InsertByDateDesc(SortByDateDesc(SubSeq(seq, 1, Len(seq) - 1)), seq[Len(seq)])

\* LastN with seq[:n] for seq[-n:]
FirstN(seq, n) ==
    IF Len(seq) <= n THEN seq ELSE SubSeq(seq, 1, n)

\* seq[-n:]
LastN(seq, n) ==
    IF Len(seq) <= n THEN seq ELSE SubSeq(seq, Len(seq) - n + 1, Len(seq))

-----------------------------------------------------------------------------
(* Alert policy *)

\* generate_alert with the id taken from the clock at its full resolution
generate_alert_by_tick(s, alert_type, description, failure_class, tid, tdate) ==
    [AlertType |-> alert_type,
     assetId |-> asset_id(s),
     Description |-> description,
     Date |-> IsoFormat(tdate),
     Failure_Class |-> failure_class,
     id |-> <<sensor_id(s), tid>>]

\* BaseSensor.generate_alert: the id reads time.time() at tick tid, the Date
\* reads datetime.now() at tick tdate
generate_alert(s, alert_type, description, failure_class, tid, tdate) ==
    [AlertType |-> alert_type,
     assetId |-> asset_id(s),
     Description |-> description,
     Date |-> IsoFormat(tdate),
     Failure_Class |-> failure_class,
     id |-> <<sensor_id(s), UnixSeconds(tid)>>]

\* What each branch of the threshold checks asks generate_alert for; the
\* description is its text and the number formatted into it
\* ProximityCheck with "<=" for "<"
ProximityCheckInclusive(d) == d <= min_distance_threshold

ProximityCheck(d) == d < min_distance_threshold
RangeCheck(d) == d > max_distance_threshold

DistanceAlerts(d) ==
    IF ProximityCheck(d)
    THEN <<[type |-> "Proximity Alert", text |-> "Object detected within", value |-> d,
            class |-> "Proximity_Warning"]>>
    ELSE IF RangeCheck(d)
    THEN <<[type |-> "Range Alert", text |-> "No object detected within range", value |-> d,
            class |-> "Range_Warning"]>>
    ELSE <<>>

DangerCheck(ppm) == ppm > danger_threshold
WarningCheck(ppm) == ppm > warning_threshold

\* AirQualityAlerts with a second "if" for the "elif"
AirQualityAlertsTwoIfs(ppm) ==
    (IF DangerCheck(ppm)
     THEN <<[type |-> "Air Quality Critical", text |-> "Dangerous air quality detected",
             value |-> ppm, class |-> "Air_Quality_Critical"]>>
     ELSE <<>>)
    \o (IF WarningCheck(ppm)
        THEN <<[type |-> "Air Quality Warning", text |-> "Poor air quality detected",
                value |-> ppm, class |-> "Air_Quality_Warning"]>>
        ELSE <<>>)

AirQualityAlerts(ppm) ==
    IF DangerCheck(ppm)
    THEN <<[type |-> "Air Quality Critical", text |-> "Dangerous air quality detected",
            value |-> ppm, class |-> "Air_Quality_Critical"]>>
    ELSE IF WarningCheck(ppm)
    THEN <<[type |-> "Air Quality Warning", text |-> "Poor air quality detected",
            value |-> ppm, class |-> "Air_Quality_Warning"]>>
    ELSE <<>>

TemperatureAlerts(t) ==
    IF t > temp_high_threshold
    THEN <<[type |-> "Temperature Alert", text |-> "High temperature detected", value |-> t,
            class |-> "Temperature_High"]>>
    ELSE IF t < temp_low_threshold
    THEN <<[type |-> "Temperature Alert", text |-> "Low temperature detected", value |-> t,
            class |-> "Temperature_Low"]>>
    ELSE <<>>

HumidityAlerts(h) ==
    IF h > humidity_high_threshold
    THEN <<[type |-> "Humidity Alert", text |-> "High humidity detected", value |-> h,
            class |-> "Humidity_High"]>>
    ELSE IF h < humidity_low_threshold
    THEN <<[type |-> "Humidity Alert", text |-> "Low humidity detected", value |-> h,
            class |-> "Humidity_Low"]>>
    ELSE <<>>

-----------------------------------------------------------------------------
(* Readers *)

\* What measure_distance / read_air_quality / read_temp_humidity can return
\* when the raw values come from U, M and D: None on failure, else the value
\* (rounded by the reader itself for distance and ppm); a DHT11 result is the
\* pair <<humidity, temperature>>, each of them a value or None
ReaderResults(s, U, M, D) ==
    CASE s \notin responsive -> IF s = "dht11" THEN {<<None, None>>} ELSE {None}
      [] s = "ultrasonic" -> {None} \cup {Some(Round2(x)) : x \in U}
      [] s = "mq135" -> {None} \cup {Some(Round2(x)) : x \in M}
      [] s = "dht11" -> D

\* ReadOk with "or" for "and" in the DHT11 test
ReadOkEither(s, m) ==
    IF s = "dht11" THEN m[1] # None \/ m[2] # None ELSE m # None

\* "if distance is not None", "if ppm is not None",
\* "if humidity is not None and temperature is not None"
ReadOk(s, m) ==
    IF s = "dht11" THEN m[1] # None /\ m[2] # None ELSE m # None

\* The alerts the threshold checks of one update ask for, first checks first
FirstChecks(s, m) ==
    CASE s = "ultrasonic" -> DistanceAlerts(Val(m))
      [] s = "mq135" -> AirQualityAlerts(Val(m))
      [] s = "dht11" -> TemperatureAlerts(Val(m[2]))

\* SecondChecks with the humidity checks chained to the temperature checks
SecondChecksChained(s, m) ==
    IF s = "dht11" /\ TemperatureAlerts(Val(m[2])) = <<>>
    THEN HumidityAlerts(Val(m[1])) ELSE <<>>

SecondChecks(s, m) ==
    IF s = "dht11" THEN HumidityAlerts(Val(m[1])) ELSE <<>>

\* How many alerts a reader's result leads to
NumAlerts(s, m) ==
    IF m = None \/ (s = "dht11" /\ (m[1] = None \/ m[2] = None)) THEN 0
    ELSE Len(FirstChecks(s, m)) + Len(SecondChecks(s, m))

\* Alerts that thread t is still to append to the log of s
Pending(t, s) ==
    IF sensor[t] # s THEN 0
    ELSE IF pc[t] \in {"u_store", "u_store2", "u_stamp", "u_alert"}
    THEN NumAlerts(s, measured[t])
    ELSE IF pc[t] = "u_alert2" THEN Len(SecondChecks(s, measured[t]))
    ELSE 0

\* The bound on the logs: a reader's result that leads to alerts is taken up
\* only while the log, with what is on its way into it, is shorter than cap
Room(t, s, m, cap) ==
    \/ ~ReadOk(s, m)
    \/ LET mine == NumAlerts(s, m)
           others == IF t = Poller THEN Pending(Server, s) ELSE Pending(Poller, s)
       IN  mine = 0 \/ Len(alerts[s]) + others < cap

-----------------------------------------------------------------------------
(* Initial state: the module has been imported, the server not yet started *)

\* The hardware set-ups explored: one sensor wired up and answering, the
\* other two not connected, so that their readers fail every time
Wirings == {{s} : s \in sensors}

EmptyReading ==
    [sensor_type |-> None, sensor_id |-> None, distance_cm |-> None,
     distance_inches |-> None, air_quality_ppm |-> None, quality_level |-> None,
     temperature_celsius |-> None, temperature_fahrenheit |-> None,
     humidity_percent |-> None, timestamp |-> None, status |-> None]

\* The state after the module is loaded, the hardware wired as one of W
Loaded(W) ==
    /\ distance = 0
    /\ air_quality_ppm = 0
    /\ temperature = 0
    /\ humidity = 0
    /\ last_reading_time = [s \in sensors |-> None]
    /\ lock = [s \in sensors |-> Free]
    /\ alerts = [s \in sensors |-> <<>>]
    /\ now = 0
    /\ pc = [t \in Threads |-> "off"]
    /\ op = [t \in Threads |-> "none"]
    /\ sensor = [t \in Threads |-> SensorOrder[1]]
    /\ measured = [t \in Threads |-> None]
    /\ base = [t \in Threads |-> 0]
    /\ reading = EmptyReading
    /\ data = <<>>
    /\ response = None
    /\ committed = [s \in sensors |-> None]
    /\ responsive \in W

Init == Loaded(Wirings)

\* startup_event: the poller thread starts, the event loop starts serving
startup_event ==
    /\ pc[Poller] = "off"
    /\ pc' = [pc EXCEPT ![Poller] = "u_read", ![Server] = "idle"]
    /\ op' = [op EXCEPT ![Poller] = "continuous_reading"]
    /\ sensor' = [sensor EXCEPT ![Poller] = SensorOrder[1]]
    /\ UNCHANGED <<sensorVars, lock, now, measured, base, reading, data, response,
                   committed, responsive>>

\* The values a read of the clock can give: time passes between two reads
ClockReads == {t \in {now, now + 1} : t <= MaxClock}

-----------------------------------------------------------------------------
(* update_reading, statement by statement *)

IndexOf(s) == CHOOSE i \in 1..Len(SensorOrder) : SensorOrder[i] = s
IsLast(s) == IndexOf(s) = Len(SensorOrder)
NextSensor(s) == SensorOrder[IndexOf(s) + 1]

\* LockFree for one lock shared by all sensors
LockFreeGlobal(s) == \A x \in sensors : lock[x] = Free

\* LockFree for a lock that excludes nobody
LockFreeAlways(s) == TRUE

\* "with self.lock:" can be entered
LockFree(s) == lock[s] = Free

\* The measurement the sensor object holds
Stored(s) ==
    CASE s = "ultrasonic" -> <<distance>>
      [] s = "mq135" -> <<air_quality_ppm>>
      [] s = "dht11" -> <<humidity, temperature>>

\* One health_status entry
HealthEntry(s, r) ==
    [sensor_type |-> s, healthy |-> r.status = Some("active"),
     last_reading |-> r.timestamp, sensor_id |-> r.sensor_id, error |-> FALSE]

HealthError(s) ==
    [sensor_type |-> s, healthy |-> FALSE, last_reading |-> None, sensor_id |-> None,
     error |-> TRUE]

\* HealthResponse with overall_healthy true if any sensor is healthy
HealthResponseAny(entries) ==
    [code |-> 200,
     status |-> IF \E i \in 1..Len(entries) : entries[i].healthy
                THEN "healthy" ELSE "degraded",
     data |-> entries,
     detail |-> None]

\* overall_healthy, and the response of health_check (without the time of
\* the report, which nothing reads)
HealthResponse(entries) ==
    [code |-> 200,
     status |-> IF \A i \in 1..Len(entries) : entries[i].healthy
                THEN "healthy" ELSE "degraded",
     data |-> entries,
     detail |-> None]

OkResponse(d) ==
    [code |-> 200, status |-> "success", data |-> d, detail |-> None]

\* HTTPException(status_code=404, detail=... Available: list(sensors.keys()))
NotFound(sensor_type) ==
    [code |-> 404, status |-> "error", data |-> <<>>,
     detail |-> Some(<<sensor_type, SensorOrder>>)]

\* HTTPException(status_code=500, detail=str(e))
ServerError ==
    [code |-> 500, status |-> "error", data |-> <<>>, detail |-> None]

\* Where thread t goes when update_reading returns
AfterUpdate(t) ==
    IF op[t] = "continuous_reading"
    THEN /\ IF IsLast(sensor[t])
            THEN /\ pc' = [pc EXCEPT ![t] = "sleep"]
                 /\ UNCHANGED sensor
            ELSE /\ pc' = [pc EXCEPT ![t] = "u_read"]
                 /\ sensor' = [sensor EXCEPT ![t] = NextSensor(sensor[t])]
         /\ UNCHANGED <<op, reading, data, response>>
    ELSE /\ pc' = [pc EXCEPT ![t] = "g1"]
         /\ UNCHANGED <<op, sensor, reading, data, response>>

\* Where thread t goes when update_reading raises: the poller's except branch
\* backs off, get_live_sensor answers 500, health_check marks the sensor and
\* goes on with the next one
AfterRaise(t) ==
    IF op[t] = "continuous_reading"
    THEN /\ pc' = [pc EXCEPT ![t] = "backoff"]
         /\ UNCHANGED <<op, sensor, reading, data, response>>
    ELSE IF op[t] = "get_live_sensor"
    THEN /\ pc' = [pc EXCEPT ![t] = "idle"]
         /\ response' = ServerError
         /\ UNCHANGED <<op, sensor, reading, data>>
    ELSE LET entries == Append(data, HealthError(sensor[t]))
         IN  /\ UNCHANGED <<op, reading>>
             /\ IF IsLast(sensor[t])
                THEN /\ pc' = [pc EXCEPT ![t] = "idle"]
                     /\ response' = HealthResponse(entries)
                     /\ data' = entries
                     /\ UNCHANGED sensor
                ELSE /\ pc' = [pc EXCEPT ![t] = "u_read"]
                     /\ sensor' = [sensor EXCEPT ![t] = NextSensor(sensor[t])]
                     /\ data' = entries
                     /\ UNCHANGED response

\* distance = self.measure_distance() and the test of its result
UpdateRead(t, U, M, D, cap) ==
    /\ pc[t] = "u_read"
    /\ \E m \in ReaderResults(sensor[t], U, M, D) :
         /\ Room(t, sensor[t], m, cap)
         /\ measured' = [measured EXCEPT ![t] = m]
         /\ IF ReadOk(sensor[t], m)
            THEN /\ pc' = [pc EXCEPT ![t] = "u_store"]
                 /\ UNCHANGED <<op, sensor, reading, data, response>>
            ELSE AfterUpdate(t)
    /\ UNCHANGED <<sensorVars, lock, now, base, committed, responsive>>

\* "with self.lock:" and the first assignment under it; round(None, 2) raises
UpdateStore(t) ==
    /\ pc[t] = "u_store"
    /\ LockFree(sensor[t])
    /\ LET s == sensor[t]
           m == measured[t]
       IN  IF s = "dht11" /\ m[1] = None
           THEN /\ AfterRaise(t)
                /\ UNCHANGED <<sensorVars, lock, base>>
           ELSE /\ lock' = [lock EXCEPT ![s] = t]
                /\ base' = [base EXCEPT ![t] = Len(alerts[s])]
                /\ distance' = IF s = "ultrasonic" THEN Val(m) ELSE distance
                /\ air_quality_ppm' = IF s = "mq135" THEN Val(m) ELSE air_quality_ppm
                /\ humidity' = IF s = "dht11" THEN Round2(Val(m[1])) ELSE humidity
                /\ pc' = [pc EXCEPT ![t] = IF s = "dht11" THEN "u_store2" ELSE "u_stamp"]
                /\ UNCHANGED <<temperature, last_reading_time, alerts, op, sensor,
                               reading, data, response>>
    /\ UNCHANGED <<now, measured, committed, responsive>>

\* self.temperature = round(temperature, 2); an exception leaves the with block
UpdateStore2(t) ==
    /\ pc[t] = "u_store2"
    /\ LET m == measured[t]
       IN  IF m[2] = None
           THEN /\ AfterRaise(t)
                /\ lock' = [lock EXCEPT ![sensor[t]] = Free]
                /\ UNCHANGED temperature
           ELSE /\ temperature' = Round2(Val(m[2]))
                /\ pc' = [pc EXCEPT ![t] = "u_stamp"]
                /\ UNCHANGED <<lock, op, sensor, reading, data, response>>
    /\ UNCHANGED <<distance, air_quality_ppm, humidity, last_reading_time, alerts,
                   now, measured, base, committed, responsive>>

\* UpdateStamp for a with block that ends before the alert checks
UpdateStampThenUnlock(t) ==
    /\ pc[t] = "u_stamp"
    /\ \E tnow \in ClockReads :
         /\ now' = tnow
         /\ last_reading_time' = [last_reading_time EXCEPT ![sensor[t]] = Some(tnow)]
    /\ lock' = [lock EXCEPT ![sensor[t]] = Free]
    /\ pc' = [pc EXCEPT ![t] = "u_alert"]
    /\ UNCHANGED <<distance, air_quality_ppm, temperature, humidity, alerts,
                   op, sensor, measured, base, reading, data, response, committed,
                   responsive>>

\* self.last_reading_time = datetime.now(timezone.utc)
UpdateStamp(t) ==
    /\ pc[t] = "u_stamp"
    /\ \E tnow \in ClockReads :
         /\ now' = tnow
         /\ last_reading_time' = [last_reading_time EXCEPT ![sensor[t]] = Some(tnow)]
    /\ pc' = [pc EXCEPT ![t] = "u_alert"]
    /\ UNCHANGED <<distance, air_quality_ppm, temperature, humidity, lock, alerts,
                   op, sensor, measured, base, reading, data, response, committed,
                   responsive>>

\* The alerts one if/elif chain appends; generate_alert reads the clock twice,
\* for the id and then for the Date
Appended(s, asked, tid, tdate) ==
    [i \in 1..Len(asked) |->
        generate_alert(s, asked[i].type, <<asked[i].text, asked[i].value>>,
                       asked[i].class, tid, tdate)]

\* UpdateAlert for a log that keeps its last ten alerts only
UpdateAlertKeepTen(t) ==
    /\ pc[t] = "u_alert"
    /\ LET s == sensor[t]
           asked == FirstChecks(s, measured[t])
       IN  /\ IF asked = <<>>
              THEN UNCHANGED <<now, alerts>>
              ELSE \E tid \in ClockReads :
                     \E tdate \in {u \in {tid, tid + 1} : u <= MaxClock} :
                       /\ now' = tdate
                       /\ alerts' = [alerts EXCEPT ![s] =
                                        LastN(@ \o Appended(s, asked, tid, tdate),
                                              KeepLast)]
           /\ pc' = [pc EXCEPT ![t] = IF s = "dht11" THEN "u_alert2" ELSE "u_unlock"]
    /\ UNCHANGED <<distance, air_quality_ppm, temperature, humidity,
                   last_reading_time, lock, op, sensor, measured, base, reading, data,
                   response, committed, responsive>>

\* The distance / ppm / temperature checks
UpdateAlert(t) ==
    /\ pc[t] = "u_alert"
    /\ LET s == sensor[t]
           asked == FirstChecks(s, measured[t])
       IN  /\ IF asked = <<>>
              THEN UNCHANGED <<now, alerts>>
              ELSE \E tid \in ClockReads :
                     \E tdate \in {u \in {tid, tid + 1} : u <= MaxClock} :
                       /\ now' = tdate
                       /\ alerts' = [alerts EXCEPT ![s] =
                                        @ \o Appended(s, asked, tid, tdate)]
           /\ pc' = [pc EXCEPT ![t] = IF s = "dht11" THEN "u_alert2" ELSE "u_unlock"]
    /\ UNCHANGED <<distance, air_quality_ppm, temperature, humidity,
                   last_reading_time, lock, op, sensor, measured, base, reading, data,
                   response, committed, responsive>>

\* The humidity checks
UpdateAlert2(t) ==
    /\ pc[t] = "u_alert2"
    /\ LET s == sensor[t]
           asked == SecondChecks(s, measured[t])
       IN  /\ IF asked = <<>>
              THEN UNCHANGED <<now, alerts>>
              ELSE \E tid \in ClockReads :
                     \E tdate \in {u \in {tid, tid + 1} : u <= MaxClock} :
                       /\ now' = tdate
                       /\ alerts' = [alerts EXCEPT ![s] =
                                        @ \o Appended(s, asked, tid, tdate)]
           /\ pc' = [pc EXCEPT ![t] = "u_unlock"]
    /\ UNCHANGED <<distance, air_quality_ppm, temperature, humidity,
                   last_reading_time, lock, op, sensor, measured, base, reading, data,
                   response, committed, responsive>>

\* UpdateUnlock for an update_reading that returns with the lock held
UpdateUnlockKeepingLock(t) ==
    /\ pc[t] = "u_unlock"
    /\ committed' = [committed EXCEPT ![sensor[t]] =
                        Some([value |-> Stored(sensor[t]),
                              time |-> last_reading_time[sensor[t]]])]
    /\ base' = [base EXCEPT ![t] = 0]
    /\ AfterUpdate(t)
    /\ UNCHANGED <<sensorVars, lock, now, measured, responsive>>

\* The end of the with block, and the return
UpdateUnlock(t) ==
    /\ pc[t] = "u_unlock"
    /\ lock' = [lock EXCEPT ![sensor[t]] = Free]
    /\ committed' = [committed EXCEPT ![sensor[t]] =
                        Some([value |-> Stored(sensor[t]),
                              time |-> last_reading_time[sensor[t]]])]
    /\ base' = [base EXCEPT ![t] = 0]
    /\ AfterUpdate(t)
    /\ UNCHANGED <<sensorVars, now, measured, responsive>>

\* An unexpected error leaves update_reading before it has taken the lock:
\* what the "except Exception" clauses of continuous_reading, get_live_sensor
\* and health_check are written for. The readers catch every Exception of
\* their own, so no statement of the source as it stands raises one; the
\* specifications that take this step show what the callers do if one does
UpdateFault(t) ==
    /\ pc[t] = "u_read"
    /\ AfterRaise(t)
    /\ UNCHANGED <<sensorVars, lock, now, measured, base, committed, responsive>>

\* PollerWake for a loop that does not come back from its back-off
PollerWakeFromSleepOnly ==
    /\ pc[Poller] = "sleep"
    /\ pc' = [pc EXCEPT ![Poller] = "u_read"]
    /\ sensor' = [sensor EXCEPT ![Poller] = SensorOrder[1]]
    /\ UNCHANGED <<sensorVars, lock, now, op, measured, base, reading, data, response,
                   committed, responsive>>

\* time.sleep(1) or time.sleep(5) is over: the next "while True" round
PollerWake ==
    /\ pc[Poller] \in {"sleep", "backoff"}
    /\ pc' = [pc EXCEPT ![Poller] = "u_read"]
    /\ sensor' = [sensor EXCEPT ![Poller] = SensorOrder[1]]
    /\ UNCHANGED <<sensorVars, lock, now, op, measured, base, reading, data, response,
                   committed, responsive>>

-----------------------------------------------------------------------------
(* get_reading, on the event loop *)

\* Truthy for a clock whose zero value counts as false
TruthyNonZero(t) == t # None /\ Val(t) # 0

\* "if self.last_reading_time": a datetime is always true, None is false
Truthy(t) == t # None

\* 'timestamp' and 'status'
Timestamp(t) == IF Truthy(t) THEN Some(IsoFormat(Val(t))) ELSE None
Status(t) == IF Truthy(t) THEN "active" ELSE "no_reading"

\* One entry of get_config
ConfigEntry(s, r) ==
    [sensor_id |-> r.sensor_id, sensor_type |-> r.sensor_type, asset_id |-> asset_id(s)]

\* Where the handler goes with the dict r that get_reading returned
AfterReading(r) ==
    LET s == sensor[Server]
        o == op[Server]
    IN  IF o \in {"get_sensor", "get_live_sensor"}
        THEN /\ response' = OkResponse(<<r>>)
             /\ pc' = [pc EXCEPT ![Server] = "idle"]
             /\ UNCHANGED <<sensor, data>>
        ELSE LET entry == CASE o = "health_check" -> HealthEntry(s, r)
                            [] o = "get_config" -> ConfigEntry(s, r)
                            [] OTHER -> r
                 entries == Append(data, entry)
             IN  /\ data' = entries
                 /\ IF IsLast(s)
                    THEN /\ response' = IF o = "health_check"
                                        THEN HealthResponse(entries)
                                        ELSE OkResponse(entries)
                         /\ pc' = [pc EXCEPT ![Server] = "idle"]
                         /\ UNCHANGED sensor
                    ELSE /\ pc' = [pc EXCEPT ![Server] =
                                      IF o = "health_check" THEN "u_read" ELSE "g1"]
                         /\ sensor' = [sensor EXCEPT ![Server] = NextSensor(s)]
                         /\ UNCHANGED response

\* The dict get_reading returns once 'timestamp' and 'status' are in it
Returned(s) ==
    [reading EXCEPT !.timestamp = Timestamp(last_reading_time[s]),
                    !.status = Some(Status(last_reading_time[s]))]

\* "with self.lock:" and the first value the dict is built from
GetReading1 ==
    /\ pc[Server] = "g1"
    /\ LockFree(sensor[Server])
    /\ LET s == sensor[Server]
       IN  /\ lock' = [lock EXCEPT ![s] = Server]
           /\ reading' =
                CASE s = "ultrasonic" ->
                       [EmptyReading EXCEPT !.sensor_type = Some("ultrasonic"),
                                            !.sensor_id = Some(sensor_id(s)),
                                            !.distance_cm = Some(distance)]
                  [] s = "mq135" ->
                       [EmptyReading EXCEPT !.sensor_type = Some("air_quality"),
                                            !.sensor_id = Some(sensor_id(s)),
                                            !.quality_level =
                                                Some(QualityLevel(air_quality_ppm))]
                  [] s = "dht11" ->
                       [EmptyReading EXCEPT !.sensor_type = Some("temperature_humidity"),
                                            !.sensor_id = Some(sensor_id(s)),
                                            !.temperature_celsius = Some(temperature)]
    /\ pc' = [pc EXCEPT ![Server] = "g2"]
    /\ UNCHANGED <<sensorVars, now, op, sensor, measured, base, data, response,
                   committed, responsive>>

\* The values the dict reads next
GetReading2 ==
    /\ pc[Server] = "g2"
    /\ LET s == sensor[Server]
       IN  reading' =
             CASE s = "ultrasonic" ->
                    [reading EXCEPT !.distance_inches = Some(Inches(distance))]
               [] s = "mq135" ->
                    [reading EXCEPT !.air_quality_ppm = Some(air_quality_ppm)]
               [] s = "dht11" ->
                    [reading EXCEPT !.temperature_fahrenheit =
                                        Some(Fahrenheit(temperature)),
                                    !.humidity_percent = Some(humidity)]
    /\ pc' = [pc EXCEPT ![Server] = "g3"]
    /\ UNCHANGED <<sensorVars, lock, now, op, sensor, measured, base, data, response,
                   committed, responsive>>

\* GetReading3 for a get_reading that returns without releasing the lock
GetReading3KeepingLock ==
    /\ pc[Server] = "g3"
    /\ reading' = EmptyReading
    /\ AfterReading(Returned(sensor[Server]))
    /\ UNCHANGED <<sensorVars, lock, now, op, measured, base, committed, responsive>>

\* 'timestamp' and 'status', the end of the with block, and the return
GetReading3 ==
    /\ pc[Server] = "g3"
    /\ reading' = EmptyReading
    /\ lock' = [lock EXCEPT ![sensor[Server]] = Free]
    /\ AfterReading(Returned(sensor[Server]))
    /\ UNCHANGED <<sensorVars, now, op, measured, base, committed, responsive>>

-----------------------------------------------------------------------------
(* The request handlers *)

\* A path parameter that is no key of the registry
UnknownTypes == {"bme280"}

\* InRegistry for a handler that skips the test
InRegistryAny(sensor_type) == TRUE

\* "sensor_type in sensors"
InRegistry(sensor_type) == sensor_type \in sensors

StartHandler(o, s, at) ==
    /\ pc[Server] = "idle"
    /\ op' = [op EXCEPT ![Server] = o]
    /\ sensor' = [sensor EXCEPT ![Server] = s]
    /\ pc' = [pc EXCEPT ![Server] = at]
    /\ measured' = [measured EXCEPT ![Server] = None]
    /\ reading' = EmptyReading
    /\ data' = <<>>
    /\ response' = None
    /\ UNCHANGED <<sensorVars, lock, now, base, committed, responsive>>

\* The 404 of get_sensor and get_live_sensor
RejectUnknown(o, sensor_type) ==
    /\ pc[Server] = "idle"
    /\ op' = [op EXCEPT ![Server] = o]
    /\ measured' = [measured EXCEPT ![Server] = None]
    /\ reading' = EmptyReading
    /\ data' = <<>>
    /\ response' = NotFound(sensor_type)
    /\ UNCHANGED <<sensorVars, lock, now, pc, sensor, base, committed, responsive>>

get_all_sensors == StartHandler("get_all_sensors", SensorOrder[1], "g1")

get_config == StartHandler("get_config", SensorOrder[1], "g1")

health_check == StartHandler("health_check", SensorOrder[1], "u_read")

get_sensor ==
    \E sensor_type \in sensors \cup UnknownTypes :
        IF ~InRegistry(sensor_type)
        THEN RejectUnknown("get_sensor", sensor_type)
        ELSE StartHandler("get_sensor", sensor_type, "g1")

get_live_sensor ==
    \E sensor_type \in sensors \cup UnknownTypes :
        IF ~InRegistry(sensor_type)
        THEN RejectUnknown("get_live_sensor", sensor_type)
        ELSE StartHandler("get_live_sensor", sensor_type, "u_read")

get_sensor_alerts == StartHandler("get_sensor_alerts", SensorOrder[1], "a_collect")

\* AlertsCollect for a handler that takes the alerts it returns out of the log
AlertsCollectDraining ==
    /\ pc[Server] = "a_collect"
    /\ LockFree(sensor[Server])
    /\ data' = data \o LastN(alerts[sensor[Server]], KeepLast)
    /\ alerts' = [alerts EXCEPT ![sensor[Server]] = <<>>]
    /\ IF IsLast(sensor[Server])
       THEN /\ pc' = [pc EXCEPT ![Server] = "a_sort"]
            /\ UNCHANGED sensor
       ELSE /\ sensor' = [sensor EXCEPT ![Server] = NextSensor(sensor[Server])]
            /\ UNCHANGED pc
    /\ UNCHANGED <<distance, air_quality_ppm, temperature, humidity, last_reading_time,
                   lock, now, op, measured, base, reading, response, committed,
                   responsive>>

\* "with sensor.lock: all_alerts.extend(sensor.alerts[-10:])"
AlertsCollect ==
    /\ pc[Server] = "a_collect"
    /\ LockFree(sensor[Server])
    /\ data' = data \o LastN(alerts[sensor[Server]], KeepLast)
    /\ IF IsLast(sensor[Server])
       THEN /\ pc' = [pc EXCEPT ![Server] = "a_sort"]
            /\ UNCHANGED sensor
       ELSE /\ sensor' = [sensor EXCEPT ![Server] = NextSensor(sensor[Server])]
            /\ UNCHANGED pc
    /\ UNCHANGED <<sensorVars, lock, now, op, measured, base, reading, response,
                   committed, responsive>>

\* all_alerts.sort(...) and the response
AlertsSort ==
    /\ pc[Server] = "a_sort"
    /\ data' = SortByDateDesc(data)
    /\ response' = OkResponse(data')
    /\ pc' = [pc EXCEPT ![Server] = "idle"]
    /\ UNCHANGED <<sensorVars, lock, now, op, sensor, measured, base, reading,
                   committed, responsive>>

-----------------------------------------------------------------------------
(* Specifications *)

\* The poller, the clock and update_reading
Updates(U, M, D, cap) ==
    \/ PollerWake
    \/ \E t \in Threads : UpdateRead(t, U, M, D, cap)
    \/ \E t \in Threads : UpdateStore(t)
    \/ \E t \in Threads : UpdateStore2(t)
    \/ \E t \in Threads : UpdateStamp(t)
    \/ \E t \in Threads : UpdateAlert(t)
    \/ \E t \in Threads : UpdateAlert2(t)
    \/ \E t \in Threads : UpdateUnlock(t)

GetReading ==
    \/ GetReading1
    \/ GetReading2
    \/ GetReading3

\* Raw values: one that raises no alert and one that does, per sensor, and
\* every way a reader fails
DistanceInputs == {9990, 100000}
PpmInputs == {400000, 1000010}
DhtInputs ==
    {<<None, None>>, <<Some(50000), None>>, <<None, Some(20000)>>,
     <<Some(50000), Some(20000)>>, <<Some(80010), Some(35004)>>}

\* The poller against get_sensor and get_live_sensor
Next ==
    \/ startup_event
    \/ Updates(DistanceInputs, PpmInputs, DhtInputs, MaxAlerts)
    \/ GetReading
    \/ get_sensor
    \/ get_live_sensor

Spec == Init /\ [][Next]_vars

\* The poller against health_check
NextHealth ==
    \/ startup_event
    \/ Updates(DistanceInputs, PpmInputs, DhtInputs, MaxAlerts)
    \/ GetReading
    \/ health_check

SpecHealth == Init /\ [][NextHealth]_vars

-----------------------------------------------------------------------------
(* get_sensor_alerts against logs that outgrow the last-ten window *)

\* A reading of each sensor that raises one alert
AlertingResult(s) ==
    CASE s = "ultrasonic" -> Some(9990)
      [] s = "mq135" -> Some(1000010)
      [] s = "dht11" -> <<Some(50000), Some(35004)>>

\* The log after n updates that all read AlertingResult(s) at clock value t
LogOf(s, n, t) ==
    [i \in 1..n |-> Appended(s, FirstChecks(s, AlertingResult(s)), t, t)[1]]

\* The server has been up for a while: every sensor has answered with an
\* alerting value, sensor s the last time at clock value at[s]; since then
\* all hardware but that of one sensor has been disconnected, and that sensor
\* has answered KeepLast - 1 times
InitAlerts ==
    /\ now = MaxClock - 1
    /\ responsive \in Wirings
    /\ \E at \in [sensors -> 0..now] :
         /\ alerts = [s \in sensors |->
                         LogOf(s, IF s \in responsive THEN KeepLast - 1 ELSE 1, at[s])]
         /\ last_reading_time = [s \in sensors |-> Some(at[s])]
    /\ distance = Val(AlertingResult("ultrasonic"))
    /\ air_quality_ppm = Val(AlertingResult("mq135"))
    /\ humidity = Round2(Val(AlertingResult("dht11")[1]))
    /\ temperature = Round2(Val(AlertingResult("dht11")[2]))
    /\ committed = [s \in sensors |->
                       Some([value |-> Stored(s), time |-> last_reading_time[s]])]
    /\ lock = [s \in sensors |-> Free]
    /\ pc = [t \in Threads |-> IF t = Poller THEN "u_read" ELSE "idle"]
    /\ op = [t \in Threads |-> IF t = Poller THEN "continuous_reading" ELSE "none"]
    /\ sensor = [t \in Threads |-> SensorOrder[1]]
    /\ measured = [t \in Threads |-> None]
    /\ base = [t \in Threads |-> 0]
    /\ reading = EmptyReading
    /\ data = <<>>
    /\ response = None

\* The poller against get_sensor_alerts; the wired sensor's values all alert
NextAlerts ==
    \/ Updates({9990}, {1000010}, {<<None, None>>, <<Some(80010), Some(35004)>>},
               KeepLast - 1 + MaxAlerts)
    \/ get_sensor_alerts
    \/ AlertsCollect
    \/ AlertsSort

SpecAlerts == InitAlerts /\ [][NextAlerts]_vars

\* The same with get_live_sensor, whose updates append as the poller's do
NextAppends ==
    \/ NextAlerts
    \/ GetReading
    \/ get_live_sensor

SpecAppends == InitAlerts /\ [][NextAppends]_vars

\* The poller against health_check, with unexpected errors in update_reading
NextFaults ==
    \/ startup_event
    \/ Updates({100000}, {400000}, {<<None, None>>, <<Some(50000), Some(20000)>>},
               MaxAlerts)
    \/ \E t \in Threads : UpdateFault(t)
    \/ GetReading
    \/ health_check

\* All three sensors wired: each of them may answer or fail
InitFaults == Loaded({sensors})

SpecFaults == InitFaults /\ [][NextFaults]_vars

\* The poller and get_live_sensor against the handlers that only read
NextReads ==
    \/ startup_event
    \/ Updates({9990}, {400000}, {<<None, None>>, <<Some(80010), Some(35004)>>},
               MaxAlerts)
    \/ GetReading
    \/ get_all_sensors
    \/ get_config
    \/ get_sensor
    \/ get_live_sensor
    \/ get_sensor_alerts
    \/ AlertsCollect
    \/ AlertsSort

SpecReads == Init /\ [][NextReads]_vars

\* The poller against get_live_sensor, with two sensors that answer
NextParallel ==
    \/ startup_event
    \/ Updates({9990}, {400000}, {<<None, None>>, <<Some(50000), Some(20000)>>},
               MaxAlerts)
    \/ GetReading
    \/ get_live_sensor

\* Two sensors wired, the third not connected
PairWirings == {sensors \ {s} : s \in sensors}

SpecParallel == Loaded(PairWirings) /\ [][NextParallel]_vars

\* Distances and ppm values within the bounds and beyond each of them
BoundDistances == {9990, 100000, 200010}
BoundPpms == {400000, 500010, 1000010}

\* The poller against get_sensor, with values on every side of the distance
\* and ppm bounds
NextCommits ==
    \/ startup_event
    \/ Updates(BoundDistances, BoundPpms,
               {<<None, None>>, <<Some(50000), Some(20000)>>}, MaxAlerts)
    \/ GetReading
    \/ get_sensor

SpecCommits == Init /\ [][NextCommits]_vars

\* The poller, with unexpected errors, against get_sensor and get_sensor_alerts
NextLive ==
    \/ startup_event
    \/ Updates({9990}, {400000}, {<<None, None>>, <<Some(50000), Some(20000)>>},
               MaxAlerts)
    \/ UpdateFault(Poller)
    \/ GetReading
    \/ get_sensor
    \/ get_sensor_alerts
    \/ AlertsCollect
    \/ AlertsSort

\* The steps of thread t that need nothing but the processor
Runs(t) ==
    \/ t = Poller /\ PollerWake
    \/ \E s \in sensors :
         /\ sensor[t] = s
         /\ UpdateRead(t, {9990}, {400000},
                       {<<None, None>>, <<Some(50000), Some(20000)>>}, MaxAlerts)
    \/ UpdateStore2(t)
    \/ UpdateStamp(t)
    \/ UpdateAlert(t)
    \/ UpdateAlert2(t)
    \/ UpdateUnlock(t)
    \/ t = Server /\ (GetReading2 \/ GetReading3 \/ AlertsSort)

\* The steps of thread t that enter "with self.lock:"
Acquires(t) ==
    \/ UpdateStore(t)
    \/ t = Server /\ (GetReading1 \/ AlertsCollect)

\* Fair scheduling: the server starts, a thread that can run does run, and a
\* thread that waits for a lock gets it if the lock is free again and again
Fairness ==
    /\ WF_vars(startup_event)
    /\ \A t \in Threads : WF_vars(Runs(t)) /\ SF_vars(Acquires(t))

SpecLive == Init /\ [][NextLive]_vars /\ Fairness

-----------------------------------------------------------------------------
(* The threshold checks on every side of every threshold *)

ThresholdDistances == {9990, 10000, 200000, 200010}
ThresholdPpms == {500000, 500010, 1000000, 1000010}
ThresholdDht ==
    {<<None, None>>}
      \cup {<<Some(h), Some(t)>> : h \in {19990, 20000, 80000, 80010},
                                   t \in {4990, 5000, 35000, 35004}}

\* The poller alone
NextPolicy ==
    \/ startup_event
    \/ Updates(ThresholdDistances, ThresholdPpms, ThresholdDht, MaxAlerts)

SpecPolicy == Init /\ [][NextPolicy]_vars

-----------------------------------------------------------------------------
(* Properties *)

\* A reader's result that is a failure: None, or for the DHT11 a pair with
\* None for the humidity or for the temperature
IsFailure(s, m) ==
    IF s = "dht11" THEN m[1] = None \/ m[2] = None ELSE m = None

\* The alerts thread t has appended since it took the lock
AppendedBy(t) == SubSeq(alerts[sensor[t]], base[t] + 1, Len(alerts[sensor[t]]))

Classes(log) == [i \in 1..Len(log) |-> log[i].Failure_Class]

\* C1: an update_reading whose reader returns a failure (None; for the DHT11
\* humidity or temperature None, also only one of them) leaves the stored
\* measurement, last_reading_time and the alert logs as they were, and
\* returns without raising: the step that takes the reader's result is the
\* last step of the call, and the caller goes on as after any return.
FailingReadIsNoOp ==
    [][\A t \in Threads :
          /\ pc[t] = "u_read"
          /\ <<pc[t], sensor[t]>>' # <<pc[t], sensor[t]>>
          /\ IsFailure(sensor[t], measured'[t])
          => /\ UNCHANGED <<distance, air_quality_ppm, temperature, humidity,
                            last_reading_time, alerts, lock>>
             /\ pc'[t] \in {"u_read", "sleep", "g1"}
             /\ pc'[t] = "u_read" => t = Poller /\ sensor'[t] # sensor[t]
             /\ response' = response]_vars

\* C1 witness: a get_live_sensor call whose DHT11 reader returned a humidity
\* but no temperature is over, and the sensor still has its earlier reading
FailingReadWitness ==
    /\ op[Server] = "get_live_sensor"
    /\ response # None
    /\ measured[Server] = <<Some(50000), None>>
    /\ committed["dht11"] # None
    /\ alerts["dht11"] # <<>>

\* C3: when an update of the ultrasonic sensor leaves its critical section it
\* has appended exactly one Proximity_Warning alert if the distance read is
\* below 10 cm, exactly one Range_Warning alert if it is above 200 cm, and
\* nothing if it is between 10 and 200 cm inclusive.
DistanceAlertPolicy ==
    \A t \in Threads :
        pc[t] = "u_unlock" /\ sensor[t] = "ultrasonic" =>
            LET d == Val(measured[t])
            IN  Classes(AppendedBy(t)) =
                    IF d < 10000 THEN <<"Proximity_Warning">>
                    ELSE IF d > 200000 THEN <<"Range_Warning">>
                    ELSE <<>>

\* C3 witness: an update that read 9.99 cm has appended to a log that already
\* held an alert
DistanceAlertWitness ==
    \E t \in Threads :
        /\ pc[t] = "u_unlock" /\ sensor[t] = "ultrasonic"
        /\ measured[t] = Some(9990)
        /\ base[t] > 0
        /\ Len(alerts["ultrasonic"]) = base[t] + 1

\* C4: when an update of the MQ-135 sensor leaves its critical section it has
\* appended exactly one Air_Quality_Critical alert (and no warning) if the ppm
\* read is above 1000, exactly one Air_Quality_Warning alert if it is above
\* 500 and at most 1000, and nothing if it is at most 500.
AirQualityAlertPolicy ==
    \A t \in Threads :
        pc[t] = "u_unlock" /\ sensor[t] = "mq135" =>
            LET p == Val(measured[t])
            IN  Classes(AppendedBy(t)) =
                    IF p > 1000000 THEN <<"Air_Quality_Critical">>
                    ELSE IF p > 500000 THEN <<"Air_Quality_Warning">>
                    ELSE <<>>

\* C4 witness: an update that read 1000.01 ppm has appended its alert
AirQualityAlertWitness ==
    \E t \in Threads :
        /\ pc[t] = "u_unlock" /\ sensor[t] = "mq135"
        /\ measured[t] = Some(1000010)
        /\ Len(alerts["mq135"]) = base[t] + 1

\* C5: when an update of the DHT11 sensor leaves its critical section it has
\* appended the temperature alert (Temperature_High above 35, Temperature_Low
\* below 5, none otherwise) followed by the humidity alert (Humidity_High
\* above 80, Humidity_Low below 20, none otherwise): 0, 1 or 2 alerts, each
\* dimension judged on its own, temperature first.
DhtAlertPolicy ==
    \A t \in Threads :
        pc[t] = "u_unlock" /\ sensor[t] = "dht11" =>
            LET h == Val(measured[t][1])
                c == Val(measured[t][2])
            IN  Classes(AppendedBy(t)) =
                    (IF c > 35000 THEN <<"Temperature_High">>
                     ELSE IF c < 5000 THEN <<"Temperature_Low">>
                     ELSE <<>>)
                    \o (IF h > 80000 THEN <<"Humidity_High">>
                        ELSE IF h < 20000 THEN <<"Humidity_Low">>
                        ELSE <<>>)

\* C5 witness: one update has appended a temperature and a humidity alert
DhtAlertWitness ==
    \E t \in Threads :
        /\ pc[t] = "u_unlock" /\ sensor[t] = "dht11"
        /\ Classes(AppendedBy(t)) = <<"Temperature_Low", "Humidity_High">>

\* The reading of sensor s that matches its last finished commit c (None
\* before the first): raw values, derived values and time all from c
SnapshotOf(s, c) ==
    LET v == IF c = None THEN IF s = "dht11" THEN <<0, 0>> ELSE <<0>> ELSE Val(c).value
        stamped == [EmptyReading EXCEPT
                       !.sensor_id = Some(sensor_id(s)),
                       !.timestamp = IF c = None THEN None
                                     ELSE Some(IsoFormat(Val(Val(c).time))),
                       !.status = Some(IF c = None THEN "no_reading" ELSE "active")]
    IN  CASE s = "ultrasonic" ->
               [stamped EXCEPT !.sensor_type = Some("ultrasonic"),
                               !.distance_cm = Some(v[1]),
                               !.distance_inches = Some(Inches(v[1]))]
          [] s = "mq135" ->
               [stamped EXCEPT !.sensor_type = Some("air_quality"),
                               !.air_quality_ppm = Some(v[1]),
                               !.quality_level = Some(QualityLevel(v[1]))]
          [] s = "dht11" ->
               [stamped EXCEPT !.sensor_type = Some("temperature_humidity"),
                               !.humidity_percent = Some(v[1]),
                               !.temperature_celsius = Some(v[2]),
                               !.temperature_fahrenheit = Some(Fahrenheit(v[2]))]

\* C2: the dict get_reading is about to return has status "no_reading" and a
\* null timestamp exactly when no update of that sensor has finished a commit
\* yet, and status "active" with a timestamp otherwise; and a sensor that has
\* committed once stays committed, whatever updates follow, so the status
\* never goes back.
StatusTracksCommits ==
    /\ [](pc[Server] = "g3" =>
            LET s == sensor[Server]
                r == Returned(s)
            IN  /\ (r.status = Some("no_reading") /\ r.timestamp = None)
                     <=> committed[s] = None
                /\ committed[s] # None
                     => r.status = Some("active") /\ r.timestamp # None)
    /\ [][\A s \in sensors : committed[s] # None => committed'[s] # None]_vars

\* C2 witness: get_live_sensor is about to report a sensor that committed
\* earlier and whose reader has just failed in this very call
StatusWitness ==
    /\ pc[Server] = "g3"
    /\ op[Server] = "get_live_sensor"
    /\ measured[Server] = None
    /\ committed[sensor[Server]] # None

\* C7: whatever the poller is doing, the dict get_reading is about to return
\* is the snapshot of one finished commit: raw values, derived values
\* (inches, Fahrenheit, quality level) and timestamp all belong to the
\* sensor's last finished commit.
NoTornReading ==
    pc[Server] = "g3" =>
        Returned(sensor[Server]) = SnapshotOf(sensor[Server], committed[sensor[Server]])

\* C7 witness: get_reading is about to return the DHT11's committed reading
\* while the poller waits at the lock with a different pair of values
NoTornReadingWitness ==
    /\ pc[Server] = "g3"
    /\ sensor[Server] = "dht11"
    /\ committed["dht11"] # None
    /\ pc[Poller] = "u_store"
    /\ sensor[Poller] = "dht11"
    /\ Round2(Val(measured[Poller][1])) # humidity
    /\ Round2(Val(measured[Poller][2])) # temperature

\* The value fields of a reading
RawValues(s, r) ==
    CASE s = "ultrasonic" -> <<Val(r.distance_cm)>>
      [] s = "mq135" -> <<Val(r.air_quality_ppm)>>
      [] s = "dht11" -> <<Val(r.humidity_percent), Val(r.temperature_celsius)>>

\* The value fields a reader's result is stored as
MeasuredValues(s, m) ==
    IF s = "dht11" THEN <<Round2(Val(m[1])), Round2(Val(m[2]))>> ELSE <<Val(m)>>

\* C8: the snapshot get_live_sensor answers with holds the value that the
\* update forced by this same call measured, also while the poller updates
\* the same sensor.
LiveReturnsOwnMeasurement ==
    /\ pc[Server] = "idle"
    /\ op[Server] = "get_live_sensor"
    /\ response # None
    /\ response.code = 200
    /\ ~IsFailure(sensor[Server], measured[Server])
    => RawValues(sensor[Server], response.data[1])
         = MeasuredValues(sensor[Server], measured[Server])

\* C9: a sensor whose reader failed in the update that health_check forced is
\* not reported healthy: the entry health_check has just recorded for it does
\* not say healthy = true.
HealthReflectsForcedUpdate ==
    /\ op[Server] = "health_check"
    /\ pc[Server] \in {"u_read", "idle"}
    /\ data # <<>>
    /\ IsFailure(data[Len(data)].sensor_type, measured[Server])
    => ~data[Len(data)].healthy

\* C10: get_sensor and get_live_sensor work on registered sensors only; a
\* sensor_type that is no key of the registry is answered 404 with a message
\* that lists exactly the keys ultrasonic, mq135, dht11, no reader having been
\* called, and the step that answers changes no measurement, timestamp, alert
\* log or lock.
UnknownTypeIsRejected ==
    /\ [](op[Server] \in {"get_sensor", "get_live_sensor"}
            => sensor[Server] \in {"ultrasonic", "mq135", "dht11"})
    /\ [](response # None /\ response.code = 404
            => /\ pc[Server] = "idle"
               /\ measured[Server] = None
               /\ response.detail # None
               /\ Val(response.detail)[1] \notin {"ultrasonic", "mq135", "dht11"}
               /\ Val(response.detail)[2] = <<"ultrasonic", "mq135", "dht11">>)
    /\ [][response' # response /\ response' # None /\ response'.code = 404
            => UNCHANGED <<distance, air_quality_ppm, temperature, humidity,
                           last_reading_time, alerts, lock>>]_vars

\* C10 witness: get_live_sensor has answered 404 while a sensor holds a
\* committed reading and an alert
UnknownTypeWitness ==
    /\ op[Server] = "get_live_sensor"
    /\ response # None
    /\ response.code = 404
    /\ \E s \in sensors : committed[s] # None /\ alerts[s] # <<>>

\* The alerts of sensor s in a list of alerts
AlertsOf(list, s) == SelectSeq(list, LAMBDA a : a.assetId = asset_id(s))

\* How often alert a occurs in a list of alerts
Occurrences(a, list) == Cardinality({i \in 1..Len(list) : list[i] = a})

\* Two lists hold the same alerts the same number of times
SameAlerts(l1, l2) ==
    /\ Len(l1) = Len(l2)
    /\ \A i \in 1..Len(l1) : Occurrences(l1[i], l1) = Occurrences(l1[i], l2)

\* The ten most recently appended alerts of a log, all of them if fewer
NewestTen(log) ==
    LET n == IF Len(log) < 10 THEN Len(log) ELSE 10
    IN  [i \in 1..n |-> log[Len(log) - n + i]]

\* get_sensor_alerts has answered
AlertsAnswered ==
    /\ op[Server] = "get_sensor_alerts"
    /\ pc[Server] = "idle"
    /\ response # None

\* C6: while updates go on, get_sensor_alerts takes from each sensor the ten
\* alerts appended last to its log at the moment it holds that sensor's lock
\* (all of them if fewer), answers with exactly the alerts it took, at most
\* ten per sensor, and the answer is in non-increasing order of Date.
AlertsAreNewestTenSorted ==
    /\ [](AlertsAnswered =>
            /\ \A i, j \in 1..Len(response.data) :
                 i < j => ~StrLess(response.data[i].Date, response.data[j].Date)
            /\ \A s \in sensors : Len(AlertsOf(response.data, s)) <= 10)
    /\ [][/\ pc[Server] = "a_collect"
          /\ <<pc[Server], sensor[Server]>>' # <<pc[Server], sensor[Server]>>
          => /\ lock[sensor[Server]] = Free
             /\ data' = data \o NewestTen(alerts[sensor[Server]])]_vars
    /\ [][pc[Server] = "a_sort" /\ pc'[Server] = "idle"
          => /\ response' # None
             /\ response'.code = 200
             /\ SameAlerts(response'.data, data)]_vars

\* C6 witness: the answer holds ten alerts of a sensor whose log had grown
\* beyond ten when it was read, two of them appended since the start, next
\* to another sensor's alert, and not all of one Date
AlertsWitness ==
    /\ AlertsAnswered
    /\ \E s \in sensors :
         LET mine == AlertsOf(response.data, s)
         IN  /\ Len(mine) = 10
             /\ Len(alerts[s]) > 10
             /\ Occurrences(alerts[s][1], response.data) = 8
             /\ Len(response.data) > Len(mine)
    /\ response.data[1].Date # response.data[Len(response.data)].Date

\* The positions of a thread inside update_reading
UpdateSteps == {"u_read", "u_store", "u_store2", "u_stamp", "u_alert", "u_alert2", "u_unlock"}

\* The thread's update of its sensor ends with this step, however it ends
UpdateEnds(t) ==
    /\ pc[t] \in UpdateSteps
    /\ pc'[t] \notin UpdateSteps \/ sensor'[t] # sensor[t]

\* C11: however the poller's update of one sensor ends (reader failure,
\* commit, or an exception raised while updating), the poller goes on to
\* update the next registered sensor of the same cycle, and after the last
\* one the loop goes on; the poller never stops.
CycleCoversEverySensor ==
    [][UpdateEnds(Poller) =>
         /\ pc'[Poller] # "off"
         /\ IF sensor[Poller] = "dht11"
            THEN pc'[Poller] \in {"sleep", "backoff"}
            ELSE /\ pc'[Poller] = "u_read"
                 /\ sensor'[Poller] = IF sensor[Poller] = "ultrasonic"
                                      THEN "mq135" ELSE "dht11"]_vars

\* The poller is about to call update_reading of sensor s
Attempts(s) == pc[Poller] = "u_read" /\ sensor[Poller] = s

ReadOps == {"get_all_sensors", "get_sensor", "get_sensor_alerts", "get_config"}

\* The callers of update_reading
UpdateOps == {"continuous_reading", "get_live_sensor", "health_check"}

\* This step is one of the request handler
ServerSteps ==
    <<pc[Server], op[Server], sensor[Server], reading, data, response>>'
        # <<pc[Server], op[Server], sensor[Server], reading, data, response>>

\* Thread t does a step of the commit of an update_reading that read a value
CommitStep(t) ==
    /\ op[t] \in UpdateOps
    /\ pc[t] \in {"u_store", "u_store2", "u_stamp", "u_alert", "u_alert2"}
    /\ pc'[t] # pc[t]
    /\ ~IsFailure(sensor[t], measured[t])

\* C13: no step of get_all_sensors, get_sensor, get_sensor_alerts or
\* get_config, get_reading's steps among them, changes a stored measurement,
\* a last_reading_time or an alert log; every step that changes one of them
\* is a step of the commit of a successful update_reading called by the
\* poller, get_live_sensor or health_check.
ReadsDoNotMutate ==
    [][/\ ServerSteps /\ op'[Server] \in ReadOps
            => UNCHANGED <<distance, air_quality_ppm, temperature, humidity,
                           last_reading_time, alerts>>
       /\ <<distance, air_quality_ppm, temperature, humidity,
            last_reading_time, alerts>>'
              # <<distance, air_quality_ppm, temperature, humidity,
                  last_reading_time, alerts>>
            => \E t \in Threads : CommitStep(t)]_vars

\* C13 witness: get_sensor_alerts has answered with the alert of a sensor
\* whose committed reading and log are there to be changed
ReadsWitness ==
    /\ AlertsAnswered
    /\ response.data # <<>>
    /\ \E s \in sensors : committed[s] # None /\ alerts[s] # <<>>

\* The stored measurement an alert of the given AlertType is about
StoredFor(alert_type) ==
    CASE alert_type \in {"Proximity Alert", "Range Alert"} -> distance
      [] alert_type \in {"Air Quality Critical", "Air Quality Warning"} -> air_quality_ppm
      [] alert_type = "Temperature Alert" -> temperature
      [] alert_type = "Humidity Alert" -> humidity

\* C14: when a successful update leaves its critical section, the value in
\* the description of every alert it has appended is the value it has stored
\* as the sensor's current measurement of that dimension.
AlertTextIsStoredValue ==
    \A t \in Threads :
        pc[t] = "u_unlock" =>
            \A i \in 1..Len(AppendedBy(t)) :
                AppendedBy(t)[i].Description[2] = StoredFor(AppendedBy(t)[i].AlertType)

\* The alert types thread t has appended since it took the lock
TypesAppendedBy(t) == {AppendedBy(t)[i].AlertType : i \in 1..Len(AppendedBy(t))}

\* C15: when a successful update leaves its critical section and the value it
\* has stored lies within the inclusive bounds of a dimension (10..200 cm,
\* up to 500 ppm, 5..35 degrees, 20..80 percent), it has appended no alert of
\* that dimension.
StoredWithinBoundsNoAlert ==
    \A t \in Threads :
        pc[t] = "u_unlock" =>
            /\ sensor[t] = "ultrasonic" /\ 10000 <= distance /\ distance <= 200000
                 => TypesAppendedBy(t) = {}
            /\ sensor[t] = "mq135" /\ air_quality_ppm <= 500000
                 => TypesAppendedBy(t) = {}
            /\ sensor[t] = "dht11" /\ 5000 <= temperature /\ temperature <= 35000
                 => "Temperature Alert" \notin TypesAppendedBy(t)
            /\ sensor[t] = "dht11" /\ 20000 <= humidity /\ humidity <= 80000
                 => "Humidity Alert" \notin TypesAppendedBy(t)

\* health_check has answered
HealthAnswered ==
    /\ op[Server] = "health_check"
    /\ pc[Server] = "idle"
    /\ response # None

\* health_check records the entry of the sensor it is at with this step
HealthRecords ==
    /\ op[Server] = "health_check"
    /\ Len(data') = Len(data) + 1

\* C16: the answer of health_check has one entry per registered sensor, in
\* registry order, and says "healthy" if every entry's healthy flag is true
\* and "degraded" if not; an entry recorded from a snapshot has the flag true
\* exactly when the snapshot's status is "active"; an entry recorded because
\* the update raised is unhealthy and carries the error; and after either the
\* handler goes on to update the next sensor, or answers after the last.
HealthOverall ==
    /\ [](HealthAnswered =>
            /\ response.code = 200
            /\ Len(response.data) = 3
            /\ \A i \in 1..3 :
                 response.data[i].sensor_type = <<"ultrasonic", "mq135", "dht11">>[i]
            /\ response.status \in {"healthy", "degraded"}
            /\ response.status = "healthy"
                 <=> \A i \in 1..3 : response.data[i].healthy)
    /\ [][HealthRecords =>
            LET s == sensor[Server]
                entry == data'[Len(data')]
            IN  /\ SubSeq(data', 1, Len(data)) = data
                /\ entry.sensor_type = s
                /\ IF pc[Server] = "g3"
                   THEN /\ entry.healthy <=> Returned(s).status = Some("active")
                        /\ ~entry.error
                   ELSE /\ pc[Server] = "u_read"
                        /\ ~entry.healthy
                        /\ entry.error
                /\ IF s = "dht11"
                   THEN pc'[Server] = "idle" /\ response' # None /\ response'.data = data'
                   ELSE pc'[Server] = "u_read" /\ sensor'[Server] # s]_vars

\* C16 witness: health_check has answered "degraded" with an entry for a
\* sensor whose update raised, a healthy entry after it, and an entry that
\* is unhealthy for want of a reading
HealthDegradedWitness ==
    /\ HealthAnswered
    /\ response.status = "degraded"
    /\ response.data[1].error
    /\ response.data[2].healthy
    /\ ~response.data[3].healthy /\ ~response.data[3].error

\* C17: across every step, of the poller's updates, of get_live_sensor's
\* updates and of get_sensor_alerts, every sensor's previous alert log is a
\* prefix of its new log: nothing is removed, reordered or modified, and a
\* log that has more than ten alerts keeps them all.
LogsAreAppendOnly ==
    [][\A s \in sensors :
          /\ Len(alerts'[s]) >= Len(alerts[s])
          /\ \A i \in 1..Len(alerts[s]) : alerts'[s][i] = alerts[s][i]]_vars

\* C17 witness: get_live_sensor has appended the eleventh alert to a log
\* that an earlier update had brought to ten
AppendOnlyWitness ==
    /\ op[Server] = "get_live_sensor"
    /\ pc[Server] = "u_unlock"
    /\ AppendedBy(Server) # <<>>
    /\ base[Server] >= 10
    /\ Len(alerts[sensor[Server]]) > 10

\* Thread t is inside "with self.lock:" of sensor s
InCritical(t, s) ==
    /\ sensor[t] = s
    /\ pc[t] \in {"u_store2", "u_stamp", "u_alert", "u_alert2", "u_unlock", "g2", "g3"}

\* Thread t waits to enter a "with ...lock:"
Waits(t) == pc[t] \in {"u_store", "g1", "a_collect"}

\* C18: no thread holds the locks of two sensors at once; a sensor's lock is
\* held by the one thread that is inside its critical section and by no
\* other; a thread that waits for a lock holds none, so no threads wait on
\* each other; and under fair scheduling a lock that is held is released.
LockDiscipline ==
    /\ [](\A t \in Threads : Cardinality({s \in sensors : lock[s] = t}) <= 1)
    /\ [](\A s \in sensors :
            /\ Cardinality({t \in Threads : InCritical(t, s)}) <= 1
            /\ \A t \in Threads : InCritical(t, s) <=> lock[s] = t)
    /\ [](\A t \in Threads : Waits(t) => \A s \in sensors : lock[s] # t)
    /\ \A s \in sensors : (lock[s] # Free) ~> (lock[s] = Free)

\* C18 witness: the poller waits for the lock of the sensor that get_reading
\* is reading under that lock
LockWitness ==
    \E s \in sensors :
        /\ lock[s] = Server
        /\ pc[Server] = "g2"
        /\ pc[Poller] = "u_store"
        /\ sensor[Poller] = s

\* C19: a thread that is calling a reader holds no lock, and a thread inside
\* update_reading holds its sensor's lock only from the first store to the
\* end of the commit; so while the poller's reader has not returned, however
\* long that takes, every step of get_reading and of get_sensor_alerts on the
\* request handler's side can be taken, for the same sensor or another.
ReaderRunsUnlocked ==
    /\ \A t \in Threads : pc[t] = "u_read" => \A s \in sensors : lock[s] # t
    /\ \A t \in Threads : \A s \in sensors :
         lock[s] = t /\ op[t] \in UpdateOps /\ pc[t] \in UpdateSteps
           => sensor[t] = s /\ pc[t] \in {"u_store2", "u_stamp", "u_alert", "u_alert2", "u_unlock"}
    /\ pc[Poller] = "u_read" /\ pc[Server] \in {"g1", "g2", "g3"} => ENABLED GetReading
    /\ pc[Poller] = "u_read" /\ pc[Server] = "a_collect" => ENABLED AlertsCollect
    /\ pc[Poller] = "u_read" /\ pc[Server] = "a_sort" => ENABLED AlertsSort

\* C19 witness: get_all_sensors is about to read the sensor whose reader the
\* poller is calling, after an earlier commit of that sensor
ReaderUnlockedWitness ==
    /\ pc[Poller] = "u_read"
    /\ pc[Server] = "g1"
    /\ op[Server] = "get_all_sensors"
    /\ sensor[Server] = sensor[Poller]
    /\ committed[sensor[Poller]] # None

\* Thread t takes a step of update_reading
UpdateStep(t) ==
    /\ pc[t] \in UpdateSteps
    /\ <<pc[t], sensor[t]>>' # <<pc[t], sensor[t]>>

\* C20: a step of update_reading, whoever called it, leaves the measurement,
\* the last_reading_time and the alert log of every sensor but its own as
\* they were; get_live_sensor stays with the sensor it was called for, from
\* its update to its answer, which is that sensor's reading; and an update
\* that waits for its sensor's lock can take it whenever that lock is free,
\* whatever other sensors' locks are held.
UpdatesAreIndependent ==
    /\ [][\A t \in Threads : UpdateStep(t) =>
            /\ sensor[t] # "ultrasonic" => distance' = distance
            /\ sensor[t] # "mq135" => air_quality_ppm' = air_quality_ppm
            /\ sensor[t] # "dht11" => temperature' = temperature /\ humidity' = humidity
            /\ \A s \in sensors \ {sensor[t]} :
                 /\ last_reading_time'[s] = last_reading_time[s]
                 /\ alerts'[s] = alerts[s]
                 /\ lock'[s] = lock[s]]_vars
    /\ [][op[Server] = "get_live_sensor" /\ pc[Server] # "idle"
            => /\ sensor'[Server] = sensor[Server]
               /\ op'[Server] = "get_live_sensor"
               /\ pc'[Server] = "idle" /\ response' # None
                    => /\ response'.code = 200
                       /\ response'.data[1].sensor_id = Some(sensor_id(sensor[Server]))]_vars
    /\ [](\A t \in Threads :
            pc[t] = "u_store" /\ lock[sensor[t]] = Free => ENABLED UpdateStore(t))

\* C20 witness: the poller is about to commit to one sensor while
\* get_live_sensor is in the middle of its commit to another
IndependenceWitness ==
    /\ pc[Poller] = "u_store"
    /\ op[Server] = "get_live_sensor"
    /\ pc[Server] = "u_stamp"
    /\ sensor[Server] # sensor[Poller]
    /\ lock[sensor[Server]] = Server

\* The sensor_id an alert's id starts with, by the asset the alert is for
IdPrefix(a) ==
    CASE a.assetId = "DIST-SENSOR-01" -> "ULTRASONIC-01"
      [] a.assetId = "AIR-QUALITY-01" -> "MQ135-01"
      [] a.assetId = "TEMP-HUM-01" -> "DHT11-01"

\* The whole seconds the clock shows between this state and the next
SecondsOfStep == {u \div TicksPerSecond : u \in now..now'}

\* C21: every alert's id is its sensor's sensor_id joined with the whole
\* second the clock showed while the alert was generated, so two alerts of
\* one log have equal ids exactly when those seconds are equal; and an update
\* appends every alert it generates, also one whose id is in the log already
\* (the second alert of a DHT11 update, an alert of another thread's update in
\* the same second).
AlertIdIsSensorAndSecond ==
    /\ [](\A s \in sensors : \A i \in 1..Len(alerts[s]) :
            /\ alerts[s][i].id[1] = IdPrefix(alerts[s][i])
            /\ \A j \in 1..Len(alerts[s]) :
                 alerts[s][i].id = alerts[s][j].id
                   <=> alerts[s][i].id[2] = alerts[s][j].id[2])
    /\ [][\A s \in sensors : \A i \in (Len(alerts[s]) + 1)..Len(alerts'[s]) :
            alerts'[s][i].id[2] \in SecondsOfStep]_vars
    /\ [][\A t \in Threads :
            /\ pc[t] = "u_alert" /\ pc'[t] # "u_alert"
                 => Len(alerts'[sensor[t]])
                      = Len(alerts[sensor[t]]) + Len(FirstChecks(sensor[t], measured[t]))
            /\ pc[t] = "u_alert2" /\ pc'[t] # "u_alert2"
                 => Len(alerts'[sensor[t]])
                      = Len(alerts[sensor[t]]) + Len(SecondChecks(sensor[t], measured[t]))]_vars

\* C21 witness: get_live_sensor has appended a temperature and a humidity
\* alert with one id, which is also the id of the alert that an earlier
\* update appended last, and the log holds all three
SameIdWitness ==
    /\ op[Server] = "get_live_sensor"
    /\ pc[Server] = "u_unlock"
    /\ sensor[Server] = "dht11"
    /\ Len(AppendedBy(Server)) = 2
    /\ AppendedBy(Server)[1].id = AppendedBy(Server)[2].id
    /\ base[Server] >= 1
    /\ alerts["dht11"][base[Server]].id = AppendedBy(Server)[1].id
    /\ Len(alerts["dht11"]) = base[Server] + 2

\* C22: with a clock that never goes back, no step moves a sensor's
\* last_reading_time back, and in every alert log the Date values, compared
\* as the strings they are, never decrease from one entry to the next,
\* however the updates of the poller and of get_live_sensor interleave; so no
\* alert before the last ten of a log has a Date later than one of the last
\* ten.
DatesNeverDecrease ==
    /\ [][\A s \in sensors :
            last_reading_time[s] # None
              => /\ last_reading_time'[s] # None
                 /\ Val(last_reading_time'[s]) >= Val(last_reading_time[s])]_vars
    /\ [](\A s \in sensors : \A i \in 1..(Len(alerts[s]) - 1) :
            ~StrLess(alerts[s][i + 1].Date, alerts[s][i].Date))
    /\ [](\A s \in sensors :
            \A i \in 1..(Len(alerts[s]) - 10) :
                \A j \in (Len(alerts[s]) - 9)..Len(alerts[s]) :
                    ~StrLess(alerts[s][j].Date, alerts[s][i].Date))

\* C22 witness: get_live_sensor has appended an alert with a later Date than
\* the log's first and has moved last_reading_time on, while the poller waits
\* for the lock with a measurement of its own for the same sensor
DatesWitness ==
    /\ op[Server] = "get_live_sensor"
    /\ pc[Server] = "u_unlock"
    /\ AppendedBy(Server) # <<>>
    /\ Len(alerts[sensor[Server]]) >= 10
    /\ StrLess(alerts[sensor[Server]][1].Date, AppendedBy(Server)[1].Date)
    /\ committed[sensor[Server]] # None
    /\ Val(last_reading_time[sensor[Server]]) > Val(Val(committed[sensor[Server]]).time)
    /\ pc[Poller] = "u_store"
    /\ sensor[Poller] = sensor[Server]

\* The Failure_Class of the alert that a stored distance or ppm value calls
\* for, None if it calls for none
ClassFor(s, v) ==
    CASE s = "ultrasonic" -> IF v < 10000 THEN Some("Proximity_Warning")
                             ELSE IF v > 200000 THEN Some("Range_Warning")
                             ELSE None
      [] s = "mq135" -> IF v > 1000000 THEN Some("Air_Quality_Critical")
                        ELSE IF v > 500000 THEN Some("Air_Quality_Warning")
                        ELSE None

\* The newest alert of sensor s is the one generated for the value v
NewestAlertIsFor(s, v) ==
    /\ alerts[s] # <<>>
    /\ alerts[s][Len(alerts[s])].Description[2] = v
    /\ Some(alerts[s][Len(alerts[s])].Failure_Class) = ClassFor(s, v)

\* The stored distance or ppm value
StoredValue(s) == IF s = "ultrasonic" THEN distance ELSE air_quality_ppm

\* C23: whenever the lock of the ultrasonic or the MQ135 sensor is free, or
\* get_reading holds it and is about to return: before the sensor's first
\* successful update the initial value 0.0 is stored and the log is empty;
\* after it (status "active"), if the stored distance is below 10 or above
\* 200, or the stored ppm above 500, then the newest alert of the log is the
\* one generated for that very value, so a reader never sees an out-of-bounds
\* value whose alert is still to come.
CommitIsAtomic ==
    \A s \in {"ultrasonic", "mq135"} :
        lock[s] = Free \/ (lock[s] = Server /\ pc[Server] = "g3") =>
            IF last_reading_time[s] = None
            THEN StoredValue(s) = 0 /\ alerts[s] = <<>>
            ELSE /\ ClassFor(s, StoredValue(s)) # None => NewestAlertIsFor(s, StoredValue(s))
                 /\ pc[Server] = "g3" /\ sensor[Server] = s
                      => /\ Returned(s).status = Some("active")
                         /\ RawValues(s, Returned(s)) = <<StoredValue(s)>>

\* C23 witness: get_reading is about to return an out-of-bounds distance or
\* ppm value whose alert is the newest of the log,
\* while the poller waits for the lock with a value beyond the other bound
CommitWitness ==
    \E s \in {"ultrasonic", "mq135"} :
        /\ pc[Server] = "g3"
        /\ sensor[Server] = s
        /\ last_reading_time[s] # None
        /\ ClassFor(s, StoredValue(s)) # None
        /\ NewestAlertIsFor(s, StoredValue(s))
        /\ pc[Poller] = "u_store"
        /\ sensor[Poller] = s
        /\ ClassFor(s, Val(measured[Poller])) \notin {None, ClassFor(s, StoredValue(s))}

====
